---- MODULE Spec2Model ----
(* Model of the permission-watcher daemon of src/src/main.rs: the octal    *)
(* target mode, the ignore test, the scan (check_permissions), the fix     *)
(* (change_permissions), one pass (run_check), the watcher callback with   *)
(* its bounded channel, and the select loop of main with its interval and  *)
(* its 100 ms sleep.                                                        *)
EXTENDS Integers, Sequences, FiniteSets, TLC

(***************************************************************************)
(* Program constants                                                       *)
(***************************************************************************)
ChannelCapacity == 100
SettleMs == 100
PeriodMs == 3600000
PermMask == 512
ChmodMask == 4096
\* 2^32 / 8: one more octal digit after this value leaves the 32 bits of u32
U32Div8 == 536870912

(***************************************************************************)
(* Bounds of the model                                                     *)
(***************************************************************************)
MaxNotifs == 2
MaxDeliver == 3
MaxTicks == 2
MaxFine == 2
MaxDigits == 4
MaxOsQueue == 2

Quantum == 50

(***************************************************************************)
(* Strings are sequences of one-character strings, so that splitting a     *)
(* path into components and parsing octal digits are computed.             *)
(***************************************************************************)
OctalDigits == <<"0", "1", "2", "3", "4", "5", "6", "7">>

RECURSIVE DigitValue(_, _)
DigitValue(c, i) ==
  IF i > Len(OctalDigits) THEN -1
  ELSE IF OctalDigits[i] = c THEN i - 1
  ELSE DigitValue(c, i + 1)

RECURSIVE ParseDigits(_, _)
ParseDigits(s, acc) ==
  IF s = <<>> THEN [ok |-> TRUE, val |-> acc]
  ELSE LET d == DigitValue(Head(s), 1)
       IN IF d < 0 THEN [ok |-> FALSE, val |-> 0]
          ELSE IF acc >= U32Div8 THEN [ok |-> FALSE, val |-> 0]
          ELSE ParseDigits(Tail(s), acc * 8 + d)

\* u32::from_str_radix(s, 8): empty strings, non-octal characters and
\* values that do not fit 32 bits are errors.
from_str_radix(s) ==
  IF s = <<>> THEN [ok |-> FALSE, val |-> 0] ELSE ParseDigits(s, 0)

\* Path::components(): split at "/", drop empty pieces, drop "." except
\* when it leads the path.
RECURSIVE Split(_, _, _)
Split(s, cur, out) ==
  IF s = <<>> THEN (IF cur = <<>> THEN out ELSE Append(out, cur))
  ELSE IF Head(s) = "/"
       THEN Split(Tail(s), <<>>, IF cur = <<>> THEN out ELSE Append(out, cur))
       ELSE Split(Tail(s), Append(cur, Head(s)), out)

Components(s) ==
  LET parts == Split(s, <<>>, <<>>)
      keep == {i \in 1..Len(parts) : i = 1 \/ parts[i] # <<".">>}
      RECURSIVE Pick(_)
      Pick(i) == IF i > Len(parts) THEN <<>>
                 ELSE IF i \in keep THEN <<parts[i]>> \o Pick(i + 1)
                 ELSE Pick(i + 1)
  IN Pick(1)

IsPrefix(p, q) ==
  /\ Len(p) <= Len(q)
  /\ \A i \in 1..Len(p) : p[i] = q[i]

\* The path written out, its components joined by "/".
RECURSIVE Join(_)
Join(path) ==
  IF path = <<>> THEN <<>>
  ELSE IF Len(path) = 1 THEN Head(path)
  ELSE Head(path) \o <<"/">> \o Join(Tail(path))

\* starts_with as a prefix test on the characters of the two paths.
starts_with_chars(path, base) == IsPrefix(base, Join(path))

\* Path::starts_with: whole components of base lead the components of path.
starts_with(path, base) == IsPrefix(Components(base), path)

\* The file a path names: a leading "." names the working directory.
Resolve(path) ==
  IF path # <<>> /\ Head(path) = <<".">> THEN Tail(path) ELSE path

(***************************************************************************)
(* The directory trees.  An entry is named by its components; a component  *)
(* is a string, so "f" and "f2" differ as components although one is a     *)
(* character prefix of the other.                                          *)
(***************************************************************************)
Tree ==
  { << <<"w">> >>,
    << <<"w">>, <<"f">> >>,
    << <<"w">>, <<"f">>, <<"x">> >>,
    << <<"w">>, <<"f", "2">> >>,
    << <<"v">> >>,
    << <<"u">> >> }

\* The order in which walkdir lists the entries (parents before children).
WalkOrder ==
  << << <<"w">> >>,
     << <<"w">>, <<"f">> >>,
     << <<"w">>, <<"f">>, <<"x">> >>,
     << <<"w">>, <<"f", "2">> >>,
     << <<"v">> >>,
     << <<"u">> >> >>

VARIABLES
  config,        \* Config: watch_dirs, ignore_dirs, desired_permission
  mode,          \* permission bits (low 12 bits of st_mode) of every entry
  failMeta,      \* entries whose fs::metadata fails
  failChmod,     \* entries whose fs::set_permissions fails
  failWatch,     \* indices of watch_dirs whose watcher.watch fails
  watched,       \* indices of watch_dirs with a watch installed
  pc,            \* position of main
  dirIdx,        \* run_check: index of the watch dir being processed
  phase,         \* run_check: "scan" or "fix"
  files,         \* run_check: the scan's result awaiting change_permissions
  passErr,       \* run_check returned Err
  osPending,     \* file system events the watcher thread has yet to hand off
  chan,          \* messages buffered in the mpsc channel
  sleepLeft,     \* time left of time::sleep
  tickIn,        \* time to the interval's next deadline
  owed,          \* interval deadlines elapsed and not yet returned by tick()
  sinceNotif,    \* time since the last hand-off, saturating at SettleMs
  fine,          \* fine-grained time steps taken in this timer period
  hist           \* history counters the properties read

cfgVars == <<config, failMeta, failChmod, failWatch>>
passVars == <<dirIdx, phase, files, passErr>>
timeVars == <<sleepLeft, tickIn, owed, sinceNotif, fine>>
vars == <<config, mode, failMeta, failChmod, failWatch, watched, pc, dirIdx,
          phase, files, passErr, osPending, chan, sleepLeft, tickIn, owed,
          sinceNotif, fine, hist>>

Min(a, b) == IF a < b THEN a ELSE b
Max(a, b) == IF a < b THEN b ELSE a

(***************************************************************************)
(* PermissionChecker                                                       *)
(***************************************************************************)
\* should_process_file consulting the first ignored dir only.
should_process_file_first(cfg, path) ==
  ~ \E i \in 1..Min(1, Len(cfg.ignore_dirs)) : starts_with(path, cfg.ignore_dirs[i])

\* should_process_file: false when the path starts with an ignored dir.
should_process_file(cfg, path) ==
  ~ \E i \in 1..Len(cfg.ignore_dirs) : starts_with(path, cfg.ignore_dirs[i])

\* WalkDir::new(dir): the paths it yields, each the given dir joined with
\* the entry's components below it; entries it cannot read are dropped.
RECURSIVE WalkFrom(_, _)
WalkFrom(dir, i) ==
  IF i > Len(WalkOrder) THEN <<>>
  ELSE LET base == Components(dir)
           key == Resolve(base)
           e == WalkOrder[i]
       IN IF key # <<>> /\ IsPrefix(key, e)
          THEN <<base \o SubSeq(e, Len(key) + 1, Len(e))>> \o WalkFrom(dir, i + 1)
          ELSE WalkFrom(dir, i + 1)

Walk(dir) == WalkFrom(dir, 1)

\* ScanFrom comparing the whole mode, without the 0o777 mask.
RECURSIVE ScanFrom_nomask(_, _, _, _, _, _)
ScanFrom_nomask(cfg, md, fm, desired, paths, acc) ==
  IF paths = <<>> THEN [ok |-> TRUE, files |-> acc]
  ELSE LET path == Head(paths)
       IN IF should_process_file(cfg, path)
          THEN IF Resolve(path) \in fm
               THEN [ok |-> FALSE, files |-> <<>>]
               ELSE IF md[Resolve(path)] # desired
                    THEN ScanFrom_nomask(cfg, md, fm, desired, Tail(paths), Append(acc, path))
                    ELSE ScanFrom_nomask(cfg, md, fm, desired, Tail(paths), acc)
          ELSE ScanFrom_nomask(cfg, md, fm, desired, Tail(paths), acc)

RECURSIVE ScanFrom(_, _, _, _, _, _)
ScanFrom(cfg, md, fm, desired, paths, acc) ==
  IF paths = <<>> THEN [ok |-> TRUE, files |-> acc]
  ELSE LET path == Head(paths)
       IN IF should_process_file(cfg, path)
          THEN IF Resolve(path) \in fm
               THEN [ok |-> FALSE, files |-> <<>>]
               ELSE IF md[Resolve(path)] % PermMask # desired
                    THEN ScanFrom(cfg, md, fm, desired, Tail(paths), Append(acc, path))
                    ELSE ScanFrom(cfg, md, fm, desired, Tail(paths), acc)
          ELSE ScanFrom(cfg, md, fm, desired, Tail(paths), acc)

\* check_permissions(dir) on the file modes md, with metadata failing on fm.
check_permissions(cfg, md, fm, dir) ==
  LET parsed == from_str_radix(cfg.desired_permission)
  IN IF ~parsed.ok THEN [ok |-> FALSE, files |-> <<>>]
     ELSE ScanFrom(cfg, md, fm, parsed.val, Walk(dir), <<>>)

RECURSIVE FixFrom(_, _, _, _, _, _)
FixFrom(md, fm, fc, desired, fs, n) ==
  IF fs = <<>> THEN [ok |-> TRUE, mode |-> md, changed |-> n]
  ELSE LET f == Resolve(Head(fs))
       IN IF f \in fm \/ f \in fc
          THEN [ok |-> FALSE, mode |-> md, changed |-> n]
          ELSE FixFrom([md EXCEPT ![f] = desired % ChmodMask], fm, fc, desired,
                       Tail(fs), n + 1)

\* change_permissions(files): chmod keeps the low 12 bits of the mode.
change_permissions(cfg, md, fm, fc, fs) ==
  LET parsed == from_str_radix(cfg.desired_permission)
  IN IF ~parsed.ok THEN [ok |-> FALSE, mode |-> md, changed |-> 0]
     ELSE FixFrom(md, fm, fc, parsed.val, fs, 0)

(***************************************************************************)
(* run_check, one step per scan and per fix                                *)
(***************************************************************************)
NDirs == Len(config.watch_dirs)

InPass == pc \in {"check1", "check2", "tick_check", "event_check"}

\* The roots whose watch covers the entry e.
Watching(e) ==
  \E i \in watched : IsPrefix(Resolve(Components(config.watch_dirs[i])), e)

RangeOf(sq) == {sq[i] : i \in 1..Len(sq)}

\* Entering run_check.
EnterPass(h) ==
  [h EXCEPT !.passesStarted = @ + 1, !.running = @ + 1,
            !.scanned = {}, !.scanErr = {}, !.found = {}, !.enforced = {},
            !.fixErr = {}]

\* run_check, lines 140-150: check_permissions on the current dir; an Err
\* is logged and the loop goes on, an empty result goes on, anything else
\* is handed to change_permissions.
Scan ==
  /\ InPass /\ phase = "scan" /\ dirIdx <= NDirs
  /\ LET r == check_permissions(config, mode, failMeta, config.watch_dirs[dirIdx])
     IN /\ IF r.ok /\ r.files # <<>>
           THEN /\ phase' = "fix"
                /\ files' = r.files
                /\ dirIdx' = dirIdx
           ELSE /\ phase' = "scan"
                /\ files' = <<>>
                /\ dirIdx' = dirIdx + 1
        /\ hist' = [hist EXCEPT
                      !.scanned = @ \cup {dirIdx},
                      !.scanErr = IF r.ok THEN @ ELSE @ \cup {dirIdx},
                      !.found = IF r.ok /\ r.files # <<>> THEN @ \cup {dirIdx} ELSE @,
                      !.reported = @ \cup RangeOf(r.files)]
  /\ UNCHANGED <<cfgVars, mode, watched, pc, passErr, osPending, chan, timeVars>>

\* run_check, line 144: change_permissions(files).await? -- an Err leaves
\* run_check at once.  Every mode change under a watched root raises a file
\* system event; the watcher's queue drops what it cannot hold.
FixB(maxOs) ==
  /\ InPass /\ phase = "fix"
  /\ LET c == change_permissions(config, mode, failMeta, failChmod, files)
         done == SubSeq(files, 1, c.changed)
         raised == Cardinality({i \in 1..c.changed : Watching(Resolve(files[i]))})
     IN /\ mode' = c.mode
        /\ osPending' = Min(maxOs, osPending + raised)
        /\ passErr' = ~c.ok
        /\ dirIdx' = IF c.ok THEN dirIdx + 1 ELSE NDirs + 1
        /\ hist' = [hist EXCEPT
                      !.enforced = @ \cup {dirIdx},
                      !.fixErr = IF c.ok THEN @ ELSE @ \cup {dirIdx},
                      !.applied = @ \cup RangeOf(done),
                      !.chmodded = @ \cup {Resolve(f) : f \in RangeOf(done)},
                      !.fixedOk = @ \cup {Resolve(f) : f \in RangeOf(done)}]
  /\ phase' = "scan"
  /\ files' = <<>>
  /\ UNCHANGED <<cfgVars, watched, pc, chan, timeVars>>

\* run_check returns; main goes on: `?` at lines 183 and 189 leaves main on
\* Err, the loop (lines 198, 206) logs it.
PassEnd ==
  /\ InPass /\ phase = "scan" /\ dirIdx > NDirs
  /\ pc' = CASE pc = "check1" -> IF passErr THEN "exit" ELSE "setup2"
             [] pc = "check2" -> IF passErr THEN "exit" ELSE "interval"
             [] OTHER -> "select"
  /\ hist' = [hist EXCEPT !.passesDone = @ + 1, !.running = @ - 1]
  /\ UNCHANGED <<cfgVars, mode, watched, passVars, osPending, chan, timeVars>>

(***************************************************************************)
(* main                                                                    *)
(***************************************************************************)
\* main, lines 165-172: every watch dir must exist.
CheckDirs ==
  /\ pc = "start"
  /\ pc' = IF \A i \in 1..NDirs : Resolve(Components(config.watch_dirs[i])) \in Tree
           THEN "setup1" ELSE "exit"
  /\ UNCHANGED <<cfgVars, mode, watched, passVars, osPending, chan, timeVars, hist>>

\* The watcher's thread holds an event and the channel is full:
\* blocking_send (line 64) does not return until main receives.
ProducerBlocked == osPending > 0 /\ chan = ChannelCapacity

\* setup_watchers (lines 131-137) and the run_check that follows it
\* (lines 180-183 and again 186-189): a failing watch is dropped silently.
\* watcher.watch (line 133) is answered by the watcher's own thread, the
\* thread that runs the callback of PermissionChecker::new: while that
\* thread is held in blocking_send (line 64) the call does not return.
\* Before the first call nothing is watched and no event is pending.
setup_watchers ==
  /\ pc \in {"setup1", "setup2"}
  /\ ~ProducerBlocked
  /\ watched' = watched \cup ((1..NDirs) \ failWatch)
  /\ pc' = IF pc = "setup1" THEN "check1" ELSE "check2"
  /\ dirIdx' = 1 /\ phase' = "scan" /\ files' = <<>> /\ passErr' = FALSE
  /\ hist' = [EnterPass(hist) EXCEPT !.setupCalls = @ + 1]
  /\ UNCHANGED <<cfgVars, mode, osPending, chan, timeVars>>

\* time::interval(3600 s), line 192: the first tick is due at once.
MkInterval ==
  /\ pc = "interval"
  /\ pc' = "select"
  /\ owed' = 1
  /\ tickIn' = PeriodMs
  /\ fine' = 0
  /\ hist' = [hist EXCEPT !.ticksElapsed = 1]
  /\ UNCHANGED <<cfgVars, mode, watched, passVars, osPending, chan, sleepLeft,
                 sinceNotif>>

\* TickBranch with every elapsed deadline answered by this one pass.
TickBranch_drain ==
  /\ pc = "select"
  /\ owed > 0
  /\ owed' = 0
  /\ pc' = "tick_check"
  /\ dirIdx' = 1 /\ phase' = "scan" /\ files' = <<>> /\ passErr' = FALSE
  /\ hist' = [EnterPass(hist) EXCEPT
                !.tickPasses = @ + 1,
                !.tickAfterNotif = @ \/ hist.delivered > 0]
  /\ UNCHANGED <<cfgVars, mode, watched, osPending, chan, sleepLeft, tickIn,
                 sinceNotif, fine>>

\* TickBranch with the tick handled while a pass is still executing.
TickBranch_concurrent ==
  /\ pc \in {"select", "check2", "tick_check", "event_check"}
  /\ owed > 0
  /\ owed' = owed - 1
  /\ pc' = "tick_check"
  /\ dirIdx' = 1 /\ phase' = "scan" /\ files' = <<>> /\ passErr' = FALSE
  /\ hist' = [EnterPass(hist) EXCEPT
                !.tickPasses = @ + 1,
                !.tickAfterNotif = @ \/ hist.delivered > 0]
  /\ UNCHANGED <<cfgVars, mode, watched, osPending, chan, sleepLeft, tickIn,
                 sinceNotif, fine>>

\* select!, lines 196-201: interval.tick() returns one elapsed deadline and
\* run_check is awaited in the branch.
TickBranch ==
  /\ pc = "select"
  /\ owed > 0
  /\ owed' = owed - 1
  /\ pc' = "tick_check"
  /\ dirIdx' = 1 /\ phase' = "scan" /\ files' = <<>> /\ passErr' = FALSE
  /\ hist' = [EnterPass(hist) EXCEPT
                !.tickPasses = @ + 1,
                !.tickAfterNotif = @ \/ hist.delivered > 0]
  /\ UNCHANGED <<cfgVars, mode, watched, osPending, chan, sleepLeft, tickIn,
                 sinceNotif, fine>>

\* select!, lines 202-205: one message is received and the sleep starts.
RecvBranchB(maxRecv) ==
  /\ pc = "select"
  /\ chan > 0
  /\ hist.evPasses < maxRecv
  /\ chan' = chan - 1
  /\ pc' = "sleep"
  /\ sleepLeft' = SettleMs
  /\ UNCHANGED <<cfgVars, mode, watched, passVars, osPending, tickIn, owed,
                 sinceNotif, fine, hist>>

\* lines 205-206: the sleep is over and run_check starts.
SleepDone ==
  /\ pc = "sleep"
  /\ sleepLeft = 0
  /\ pc' = "event_check"
  /\ dirIdx' = 1 /\ phase' = "scan" /\ files' = <<>> /\ passErr' = FALSE
  /\ hist' = [EnterPass(hist) EXCEPT !.evPasses = @ + 1]
  /\ UNCHANGED <<cfgVars, mode, watched, osPending, chan, timeVars>>

(***************************************************************************)
(* The watcher thread and the environment                                  *)
(***************************************************************************)
\* The watcher callback, lines 61-67: blocking_send completes only when the
\* channel has room.
CallbackB(maxDeliver) ==
  /\ osPending > 0
  /\ hist.delivered < maxDeliver
  /\ chan < ChannelCapacity
  /\ osPending' = osPending - 1
  /\ chan' = chan + 1
  /\ sinceNotif' = 0
  /\ hist' = [hist EXCEPT
                !.delivered = @ + 1,
                !.burstOk = @ /\ (hist.delivered = 0 \/ sinceNotif < SettleMs)]
  /\ UNCHANGED <<cfgVars, mode, watched, pc, passVars, sleepLeft, tickIn, owed,
                 fine>>

\* Something changes under a watched root (create, write, remove, rename).
FsEventB(maxNotifs, maxOs) ==
  /\ watched # {}
  /\ hist.raised < maxNotifs
  /\ osPending < maxOs
  /\ osPending' = osPending + 1
  /\ hist' = [hist EXCEPT !.raised = @ + 1]
  /\ UNCHANGED <<cfgVars, mode, watched, pc, passVars, chan, timeVars>>

\* Time passes by d: the sleep runs down, interval deadlines elapse.
Elapse(d) ==
  /\ sleepLeft' = Max(0, sleepLeft - d)
  /\ sinceNotif' = Min(SettleMs, sinceNotif + d)
  /\ IF hist.ticksElapsed > 0 /\ d >= tickIn
     THEN /\ tickIn' = tickIn + PeriodMs - d
          /\ owed' = owed + 1
          /\ hist' = [hist EXCEPT !.ticksElapsed = @ + 1]
     ELSE /\ tickIn' = IF hist.ticksElapsed > 0 THEN tickIn - d ELSE tickIn
          /\ owed' = owed
          /\ hist' = hist
  /\ UNCHANGED <<cfgVars, mode, watched, pc, passVars, osPending, chan>>

\* A short time passes.
AdvanceFineB(maxFine) ==
  /\ fine < maxFine
  /\ pc # "exit"
  /\ fine' = fine + 1
  /\ Elapse(Quantum)

\* Time passes to the end of the sleep.
AdvanceSleep ==
  /\ pc = "sleep"
  /\ sleepLeft > 0
  /\ fine' = fine
  /\ Elapse(sleepLeft)

\* Time passes to the interval's next deadline.
AdvanceTickB(maxTicks) ==
  /\ hist.ticksElapsed > 0
  /\ hist.ticksElapsed < maxTicks
  /\ fine' = 0
  /\ Elapse(tickIn)

(***************************************************************************)
(* Specifications                                                          *)
(***************************************************************************)
Hist0 ==
  [passesStarted |-> 0, passesDone |-> 0, running |-> 0, setupCalls |-> 0,
   tickPasses |-> 0, evPasses |-> 0, ticksElapsed |-> 0,
   delivered |-> 0, raised |-> 0,
   burstOk |-> TRUE, tickAfterNotif |-> FALSE,
   scanned |-> {}, scanErr |-> {}, found |-> {}, enforced |-> {},
   fixErr |-> {},
   reported |-> {}, applied |-> {}, chmodded |-> {}, fixedOk |-> {}]

\* The state of main after Config::load, with the given configuration and
\* file system.
InitWith(cfg, md, fm, fc, fw) ==
  /\ config = cfg
  /\ mode = md
  /\ failMeta = fm
  /\ failChmod = fc
  /\ failWatch = fw
  /\ watched = {}
  /\ pc = "start"
  /\ dirIdx = 1 /\ phase = "scan" /\ files = <<>> /\ passErr = FALSE
  /\ osPending = 0
  /\ chan = 0
  /\ sleepLeft = 0 /\ tickIn = 0 /\ owed = 0 /\ sinceNotif = SettleMs /\ fine = 0
  /\ hist = Hist0

WatchDirs == << <<"w">>, <<"v">>, <<"u">> >>

Modes0 ==
  [e \in Tree |->
     CASE e = << <<"w">> >> -> 420
       [] e = << <<"w">>, <<"f">> >> -> 493
       [] e = << <<"w">>, <<"f">>, <<"x">> >> -> 511
       [] e = << <<"w">>, <<"f", "2">> >> -> 384
       [] e = << <<"v">> >> -> 511
       [] OTHER -> 420]

Init ==
  InitWith([watch_dirs |-> << <<"w">>, <<"v">> >>,
            ignore_dirs |-> << <<"w", "/", "f">> >>,
            desired_permission |-> <<"6", "4", "4">>],
           Modes0, {}, {}, {})

Fix == FixB(MaxOsQueue)
RecvBranch == RecvBranchB(MaxDeliver)
Callback == CallbackB(MaxDeliver)
FsEvent == FsEventB(MaxNotifs, MaxOsQueue)
AdvanceFine == AdvanceFineB(MaxFine)
AdvanceTick == AdvanceTickB(MaxTicks)

Next ==
  \/ CheckDirs
  \/ setup_watchers
  \/ Scan
  \/ Fix
  \/ PassEnd
  \/ MkInterval
  \/ TickBranch
  \/ RecvBranch
  \/ SleepDone
  \/ Callback
  \/ FsEvent
  \/ AdvanceFine
  \/ AdvanceSleep
  \/ AdvanceTick

Spec == Init /\ [][Next]_vars

(***************************************************************************)
(* The channel filled to its capacity: as Spec, with the watcher raising   *)
(* more events than the channel holds and main receiving few of them.      *)
(***************************************************************************)
MaxRecvChan == 1

FsEventChan == FsEventB(ChannelCapacity + 1, MaxOsQueue)
CallbackChan == CallbackB(ChannelCapacity + MaxOsQueue + 1)
RecvBranchChan == RecvBranchB(MaxRecvChan)

NextChan ==
  \/ CheckDirs
  \/ setup_watchers
  \/ Scan
  \/ Fix
  \/ PassEnd
  \/ MkInterval
  \/ TickBranch
  \/ RecvBranchChan
  \/ SleepDone
  \/ CallbackChan
  \/ FsEventChan
  \/ AdvanceSleep

SpecChan == Init /\ [][NextChan]_vars

(***************************************************************************)
(* The scan and the fix over many configurations and file systems: main    *)
(* from its start through the startup passes, the first tick and the pass  *)
(* for one notification.                                                   *)
(***************************************************************************)
RECURSIVE Strings(_, _)
Strings(alphabet, n) ==
  IF n = 0 THEN {<<>>}
  ELSE LET shorter == Strings(alphabet, n - 1)
       IN shorter \cup {Append(t, c) : t \in shorter, c \in alphabet}

DesiredChoices ==
  Strings({"1", "7"}, MaxDigits) \cup {<<"6", "4", "4">>, <<"8">>, <<"7", "9">>}

IgnoreChoices ==
  { <<>>,
    << <<"w", "/", "f">> >>,
    << <<"w", "/", "f", "/">> >>,
    << <<".", "/", "w", "/", "f">> >>,
    << <<"w", "/", "f", "2">>, <<"v">> >> }

ModeChoices ==
  {[Modes0 EXCEPT ![<< <<"w">>, <<"f">>, <<"x">> >>] = m.x, ![<< <<"v">> >>] = m.v] :
     m \in [x : {420, 1023}, v : {511, 63}]}

\* The entries whose metadata read fails, with those whose mode change fails.
FailChoices ==
  { [meta |-> {}, chmod |-> {}],
    [meta |-> {<< <<"w">>, <<"f", "2">> >>}, chmod |-> {}],
    [meta |-> {}, chmod |-> {<< <<"v">> >>}],
    [meta |-> {<< <<"w">>, <<"f", "2">> >>}, chmod |-> {<< <<"v">> >>}],
    [meta |-> {<< <<"v">> >>}, chmod |-> {<< <<"w">>, <<"f", "2">> >>}],
    [meta |-> {}, chmod |-> {<< <<"w">>, <<"f">> >>}] }

\* Watch dirs that exist, and a list naming a dir that does not.
WatchDirChoices == {WatchDirs, << <<"w">>, <<"z">> >>}

\* The watch dirs whose watcher.watch fails.
FailWatchChoices == {{}, {2}, {1, 2, 3}}

InitFs ==
  \/ \E ig \in IgnoreChoices, dp \in DesiredChoices, md \in ModeChoices,
        fl \in FailChoices :
       InitWith([watch_dirs |-> WatchDirs, ignore_dirs |-> ig,
                 desired_permission |-> dp],
                md, fl.meta, fl.chmod, {})
  \/ \E wd \in WatchDirChoices, fw \in FailWatchChoices :
       InitWith([watch_dirs |-> wd, ignore_dirs |-> << <<"w", "/", "f">> >>,
                 desired_permission |-> <<"6", "4", "4">>],
                Modes0, {}, {}, fw)

CallbackFs == CallbackB(1)
RecvBranchFs == RecvBranchB(1)

NextFs ==
  \/ CheckDirs
  \/ setup_watchers
  \/ Scan
  \/ Fix
  \/ PassEnd
  \/ MkInterval
  \/ TickBranch
  \/ RecvBranchFs
  \/ SleepDone
  \/ CallbackFs
  \/ AdvanceSleep

SpecFs == InitFs /\ [][NextFs]_vars

(***************************************************************************)
(* Properties of the trigger loop                                          *)
(***************************************************************************)
\* The passes the loop is still to run for the triggers it holds: one per
\* buffered message (lines 202-208), one per elapsed deadline (196-201).
PendingPasses == chan + owed

\* Every hand-off is received once and followed by one pass.
EventAccounting ==
  hist.evPasses + (IF pc = "sleep" THEN 1 ELSE 0) + chan = hist.delivered

\* C1: when N >= 1 notifications were handed off, each within the settle
\* window of the one before, and no timer tick was taken since the first,
\* then once the loop is idle again exactly one pass was started for them.
C1_Coalescing ==
  (/\ pc = "select" /\ chan = 0 /\ osPending = 0
   /\ hist.delivered >= 1
   /\ hist.burstOk
   /\ ~hist.tickAfterNotif)
  => hist.evPasses = 1

\* C2: while a pass is executing, at most one further pass is pending,
\* however many triggers arrived.
C2_OnePending == InPass => PendingPasses <= 1

\* C3: at most one pass executes at any time; every pass started before
\* the executing one has completed.
C3_OnePassAtATime ==
  /\ hist.running \in {0, 1}
  /\ hist.running = 1 <=> InPass
  /\ hist.passesStarted = hist.passesDone + hist.running

C3_Witness == InPass /\ hist.passesStarted >= 4 /\ PendingPasses >= 1

\* C4: a pass started for notifications starts no earlier than one settle
\* window after the most recent hand-off.
C4_SettleRestart ==
  [][hist'.evPasses > hist.evPasses => sinceNotif >= SettleMs]_vars

\* C5: every elapsed timer deadline gets one pass of its own: deadlines are
\* either still owed or were each answered by one tick pass, every pass has
\* one cause, and a tick taken by the idle loop starts its pass in that
\* very step, without the sleep.
C5_TickPerPass ==
  /\ [](/\ hist.tickPasses + owed = hist.ticksElapsed
        /\ hist.passesStarted = hist.setupCalls + hist.tickPasses + hist.evPasses)
  /\ [][hist'.tickPasses # hist.tickPasses =>
          /\ hist'.tickPasses = hist.tickPasses + 1
          /\ owed' = owed - 1
          /\ pc = "select" /\ pc' = "tick_check"
          /\ hist'.passesStarted = hist.passesStarted + 1
          /\ sleepLeft' = sleepLeft]_vars

C5_Witness == hist.tickPasses = 2 /\ hist.evPasses >= 1 /\ pc = "tick_check"

\* C6: when the loop first waits for a full timer period or a notification,
\* one pass has been executed and the watches were set up once.
C6_OneStartupPass ==
  (/\ pc = "select" /\ owed = 0
   /\ hist.ticksElapsed = 1
   /\ hist.evPasses = 0)
  => (hist.passesDone = 1 /\ hist.setupCalls = 1)

\* C7: the callback's hand-off never has to wait for main: whenever the
\* watcher has an event to hand off, the channel has room.
C7_ProducerNeverBlocks == ~(osPending > 0 /\ chan = ChannelCapacity)

(***************************************************************************)
(* Properties of the scan and the fix                                      *)
(***************************************************************************)
\* The path has a configured ignore root as a prefix of its components.
UnderIgnore(path) ==
  \E i \in 1..Len(config.ignore_dirs) :
    IsPrefix(Components(config.ignore_dirs[i]), path)

\* The paths the scans visit.
Visited == UNION {RangeOf(Walk(config.watch_dirs[i])) : i \in 1..NDirs}

Desired == from_str_radix(config.desired_permission)

C9_Idempotent ==
  /\ phase = "fix" =>
       LET once == change_permissions(config, mode, failMeta, failChmod, files)
           twice == change_permissions(config, once.mode, failMeta, failChmod, files)
       IN twice.mode = once.mode
  /\ \A f \in RangeOf(files) : Resolve(f) \notin hist.fixedOk

\* C10: when the scan of a watch root failed in a pass, at the end of the
\* pass every root listed after it was scanned, and the roots found with
\* violations were handed to change_permissions.
C10_ScanIsolation ==
  (InPass /\ phase = "scan" /\ dirIdx > NDirs) =>
    /\ \A A \in hist.scanErr : \A B \in (A + 1)..NDirs : B \in hist.scanned
    /\ hist.found \subseteq hist.enforced

\* C11: when one path of the list given to change_permissions fails,
\* every other path of the list still gets the target mode in that call.
C11_BestEffort ==
  [][(InPass /\ phase = "fix" /\ phase' = "scan") =>
       \A i \in 1..Len(files) :
         LET e == Resolve(files[i])
         IN (e \notin failMeta /\ e \notin failChmod) =>
              mode'[e] = Desired.val % ChmodMask]_vars

\* C12: when change_permissions failed for a watch root in a pass, at the
\* end of the pass every root listed after it was scanned and, if found
\* with violations, handed to change_permissions.
C12_FixIsolation ==
  (InPass /\ phase = "scan" /\ dirIdx > NDirs) =>
    /\ \A A \in hist.fixErr : \A B \in (A + 1)..NDirs : B \in hist.scanned
    /\ hist.found \subseteq hist.enforced

\* The violations of a root when a path whose metadata cannot be read is
\* skipped.
ViolationsSkipping(dir) ==
  {P \in RangeOf(Walk(dir)) :
     /\ ~UnderIgnore(P)
     /\ Resolve(P) \notin failMeta
     /\ mode[Resolve(P)] % PermMask # Desired.val}

\* C13: when the metadata of a processed path of a root cannot be read, the
\* scan of that root still returns the violations of its other paths.
C13_MetaSkip ==
  [][(/\ InPass /\ phase = "scan" /\ dirIdx <= NDirs
      /\ hist'.scanned # hist.scanned
      /\ Desired.ok
      /\ \E P \in RangeOf(Walk(config.watch_dirs[dirIdx])) :
           ~UnderIgnore(P) /\ Resolve(P) \in failMeta)
     => RangeOf(files') = ViolationsSkipping(config.watch_dirs[dirIdx])]_vars

\* C14: main is left only when a watch dir is missing at startup: no scan
\* error, metadata error or mode-change error ends the process.
C14_NeverExits ==
  pc = "exit" =>
    \E i \in 1..NDirs : Resolve(Components(config.watch_dirs[i])) \notin Tree

\* C15: when a watch dir does not exist at startup, or the watch of a
\* watch dir cannot be installed, no pass is ever started and the loop is
\* never entered.
C15_StartupGate ==
  (\/ \E i \in 1..NDirs : Resolve(Components(config.watch_dirs[i])) \notin Tree
   \/ failWatch \cap (1..NDirs) # {})
  => /\ hist.passesStarted = 0
     /\ pc \in {"start", "setup1", "exit"}

\* A visited path that is not ignored and whose own metadata read and mode
\* change succeed.
Eligible(P) ==
  /\ ~UnderIgnore(P)
  /\ Resolve(P) \notin failMeta
  /\ Resolve(P) \notin failChmod

\* C16: once a timer tick has been answered by a complete pass, every
\* eligible path has the target mode, whatever fails for other paths.
C16_EventualCompliance ==
  (pc = "select" /\ hist.tickPasses >= 1 /\ Desired.ok) =>
    \A P \in Visited :
      Eligible(P) => mode[Resolve(P)] = Desired.val % ChmodMask

Ancestors(P) == {SubSeq(P, 1, k) : k \in 0..Len(P)}

\* Some configured ignore root, as the components it names, is P or a
\* directory above P.
IgnoredByComponents(P) ==
  \E i \in 1..Len(config.ignore_dirs) :
    Components(config.ignore_dirs[i]) \in Ancestors(P)

\* C18: should_process_file rejects exactly the paths with an ignore root
\* among their ancestor directories, by whole components; every other
\* path of a root whose scan and fix succeeded has the target's low 9 bits
\* at the end of the pass ("w/f2" under the rule "w/f" is such a path).
C18_ComponentPrefix ==
  /\ \A P \in Visited : should_process_file(config, P) <=> ~IgnoredByComponents(P)
  /\ (InPass /\ phase = "scan" /\ dirIdx > NDirs) =>
       \A d \in hist.scanned \ (hist.scanErr \cup hist.fixErr) :
         \A P \in RangeOf(Walk(config.watch_dirs[d])) :
           ~IgnoredByComponents(P) =>
             mode[Resolve(P)] % PermMask = Desired.val % PermMask

C18_Witness ==
  /\ config.ignore_dirs = << <<"w", "/", "f">> >>
  /\ InPass /\ phase = "scan" /\ dirIdx > NDirs
  /\ 1 \in hist.scanned \ (hist.scanErr \cup hist.fixErr)
  /\ << <<"w">>, <<"f", "2">> >> \in hist.applied
  /\ << <<"w">>, <<"f">>, <<"x">> >> \notin hist.applied
  /\ mode[<< <<"w">>, <<"f">>, <<"x">> >>] % PermMask # Desired.val % PermMask

\* Every visited path outside the ignore roots has the low 9 bits of the
\* target.
AllCompliant ==
  /\ Desired.ok
  /\ \A P \in Visited :
       ~UnderIgnore(P) => mode[Resolve(P)] % PermMask = Desired.val % PermMask

\* C19: with no change from outside, a pass started by a notification over
\* paths that are all compliant hands nothing to change_permissions, so it
\* raises no notification of its own and the chain of passes ends, for
\* every target the configuration can hold.
C19_Quiescence ==
  (pc = "event_check" /\ AllCompliant) => files = <<>>

\* C20: main never waits in the second setup_watchers call for the
\* watcher's thread while that thread waits in blocking_send for main to
\* receive; from such a state neither moves again and no notification is
\* consumed.
C20_NoDeadlock == ~(pc = "setup2" /\ ProducerBlocked)
====
